---------------------------- MODULE Spec2Model ----------------------------
(***************************************************************************)
(* Model of the expense tracker in src/app.py: one SQLite table            *)
(* `transactions` behind five Flask handlers (list, insert, delete,        *)
(* statistics, CSV export).                                                *)
(*                                                                         *)
(* Representation.                                                         *)
(*  - Text is a sequence of one-character strings over ASCII (printable    *)
(*    characters, tab, newline, form feed, carriage return); the literal   *)
(*    fragments the exporter writes ("No transactions", " | ", ...) are    *)
(*    single elements.                                                     *)
(*  - A float is a record [k, n].  k = "fin" is the double n/8: the        *)
(*    multiples of 0.125 below 10^GridDigits are doubles, and sums and     *)
(*    differences of them are exact, so ':.2f' meets real ties (x.xx5).    *)
(*    k = "inf", "ninf", "nan" are the IEEE specials.  k = "other" is a    *)
(*    finite double off that grid (so not zero): the model keeps that it   *)
(*    is one and not its value.  k = "unfollowed" is the result of         *)
(*    arithmetic the model cannot do for want of that value: a float that  *)
(*    is not NaN, and may be infinite, finite, on the grid or zero.  What  *)
(*    even that does not settle (its truth value, its sum with an          *)
(*    infinity) has no value in the model.  -0.0 is kept as 0.0, which is  *)
(*    also what the REAL column stores for it.                             *)
(*  - A JSON value is a record [t, s, n, k]: t its type, s the text of a   *)
(*    string or the decimal digits of an integer, [k, n] the float, n the  *)
(*    truth value of a boolean or the length of an array or object.        *)
(*  - Requests are served by threads: statistics runs four SELECTs and     *)
(*    the export two, each its own step, and other requests may be served  *)
(*    between them.                                                        *)
(***************************************************************************)
EXTENDS Integers, Sequences, FiniteSets

VARIABLES
    table,    \* rows of `transactions`: [id, description, amount, type, category, date]
    seq,      \* sqlite_sequence.seq of the AUTOINCREMENT key: largest id ever assigned
    resp,     \* the response the last step sent, op "none" when it sent none
    conn,     \* connection of the request that response ended: none / closed / open
    issued,   \* history: every id an insert has ever returned
    job       \* the statistics or export request in flight: its position and locals

vars == <<table, seq, resp, conn, issued, job>>

(***************************************************************************)
(* Bounds of the model.                                                    *)
(***************************************************************************)
\* inserts that succeed in a run
MaxSeq == 2
\* requests served while a statistics or export request is in flight
MaxOverlap == 1
\* integer digits of the floats the model follows
GridDigits == 7

\* SQLITE_MAX_LIKE_PATTERN_LENGTH of the SQLite build: a longer pattern makes
\* LIKE fail with "LIKE or GLOB pattern too complex"
MaxLikePattern == 50000

-----------------------------------------------------------------------------
(***************************************************************************)
(* Text helpers: Python str methods and SQLite text functions.            *)
(***************************************************************************)
\* the printable ASCII characters, from code 32 (space) to 126; the grave
\* accent (code 96) is written by name
Ascii == <<
    " ","!","\"","#","$","%","&","'","(",")","*","+",",","-",".","/",
    "0","1","2","3","4","5","6","7","8","9",":",";","<","=",">","?",
    "@","A","B","C","D","E","F","G","H","I","J","K","L","M","N","O",
    "P","Q","R","S","T","U","V","W","X","Y","Z","[","\\","]","^","_",
    "<grave>","a","b","c","d","e","f","g","h","i","j","k","l","m","n","o",
    "p","q","r","s","t","u","v","w","x","y","z","{","|","}","~" >>

Digits == <<"0","1","2","3","4","5","6","7","8","9">>

\* byte value of a character (BINARY collation compares these)
Ord(c) ==
    CASE c = "\t" -> 9 [] c = "\n" -> 10 [] c = "\f" -> 12 [] c = "\r" -> 13
      [] OTHER -> 31 + (CHOOSE i \in 1..Len(Ascii) : Ascii[i] = c)

IsDigit(c) == \E i \in 1..Len(Digits) : Digits[i] = c
IsUpper(c) == c \in {Ascii[i] : i \in 34..59}
IsLower(c) == c \in {Ascii[i] : i \in 66..91}

\* str.lower() on one character (ASCII)
LowerChar(c) == IF IsUpper(c) THEN Ascii[Ord(c) + 1] ELSE c

\* str.upper() on one character (ASCII)
UpperChar(c) == IF IsLower(c) THEN Ascii[Ord(c) - 63] ELSE c

\* str.lower()
Lower(s) == [i \in 1..Len(s) |-> LowerChar(s[i])]

\* str.capitalize(): first character upper-cased, the rest lower-cased
Capitalize(s) == [i \in 1..Len(s) |-> IF i = 1 THEN UpperChar(s[i]) ELSE LowerChar(s[i])]

\* a < b under the BINARY collation (memcmp, shorter prefix first)
RECURSIVE TextLess(_, _)
TextLess(a, b) ==
    IF b = <<>> THEN FALSE
    ELSE IF a = <<>> THEN TRUE
    ELSE IF Head(a) = Head(b) THEN TextLess(Tail(a), Tail(b))
    ELSE Ord(Head(a)) < Ord(Head(b))

\* SQLite `s LIKE p`: % is any run of characters, _ is any one character,
\* other characters compare without regard to ASCII case; no ESCAPE.
RECURSIVE Like(_, _)
Like(s, p) ==
    IF p = <<>> THEN s = <<>>
    ELSE IF Head(p) = "%"
    THEN Like(s, Tail(p)) \/ (s # <<>> /\ Like(Tail(s), p))
    ELSE /\ s # <<>>
         /\ (Head(p) = "_" \/ LowerChar(Head(p)) = LowerChar(Head(s)))
         /\ Like(Tail(s), Tail(p))

\* SQLite substr(s, 1, n)
Substr1(s, n) == SubSeq(s, 1, IF Len(s) < n THEN Len(s) ELSE n)

\* str(n) for n >= 0
RECURSIVE NatText(_)
NatText(n) ==
    IF n < 10 THEN <<Digits[n + 1]>>
    ELSE NatText(n \div 10) \o <<Digits[(n % 10) + 1]>>

IsDigits(s) == s # <<>> /\ \A i \in 1..Len(s) : IsDigit(s[i])

\* value of a digit text (short enough for the value to be followed)
RECURSIVE DigitsValue(_)
DigitsValue(s) ==
    IF s = <<>> THEN 0
    ELSE 10 * DigitsValue(SubSeq(s, 1, Len(s) - 1)) + (Ord(s[Len(s)]) - 48)

RECURSIVE Pow10(_)
Pow10(k) == IF k = 0 THEN 1 ELSE 10 * Pow10(k - 1)

\* a digit text without its leading zeros
StripLeadingZeros(s) ==
    LET nz == {i \in 1..Len(s) : s[i] # "0"}
    IN  IF nz = {} THEN <<>>
        ELSE SubSeq(s, CHOOSE i \in nz : \A j \in 1..(i - 1) : s[j] = "0", Len(s))

\* a digit text without its trailing zeros
StripTrailingZeros(s) ==
    LET nz == {i \in 1..Len(s) : s[i] # "0"}
    IN  IF nz = {} THEN <<>>
        ELSE SubSeq(s, 1, CHOOSE i \in nz : \A j \in (i + 1)..Len(s) : s[j] = "0")

\* 0.a >= 0.b for digit texts a, b read as decimal fractions: decided by the
\* first digit in which they differ (x and y name the two stripped texts)
FractionGE(a, b) ==
    \E x \in {StripTrailingZeros(a)}, y \in {StripTrailingZeros(b)} :
        LET n    == IF Len(x) < Len(y) THEN Len(x) ELSE Len(y)
            diff == {i \in 1..n : x[i] # y[i]}
            d    == CHOOSE i \in diff : \A j \in 1..(i - 1) : x[j] = y[j]
        IN  IF diff = {} THEN Len(x) >= Len(y) ELSE Ord(x[d]) > Ord(y[d])

\* 0.a * 10^oa >= 0.b * 10^ob for digit texts a, b that start with a non-zero digit
DecimalGE(a, oa, b, ob) == oa > ob \/ (oa = ob /\ FractionGE(a, b))

\* a <= b for natural numbers written as digit texts of any length
NatTextLE(a, b) ==
    LET x == StripLeadingZeros(a)
        y == StripLeadingZeros(b)
    IN  Len(x) < Len(y) \/ (Len(x) = Len(y) /\ FractionGE(y, x))

-----------------------------------------------------------------------------
(***************************************************************************)
(* Floats: Python float and SQLite REAL.                                   *)
(***************************************************************************)
Fin(n) == [k |-> "fin", n |-> n]
PosInf == [k |-> "inf", n |-> 0]
NegInf == [k |-> "ninf", n |-> 0]
NaN == [k |-> "nan", n |-> 0]
OffGrid == [k |-> "other", n |-> 0]
Unfollowed == [k |-> "unfollowed", n |-> 0]

\* the first number of eighths beyond the grid
GridLimit == 8 * Pow10(GridDigits)

\* a + b.  Grid values add exactly; a sum that leaves the grid is a finite
\* double off it.  A double off the grid plus another finite double that is
\* not zero is a float the model cannot compute (1e308 + 1e308 is inf,
\* 0.3 + 0.2 is 0.5, 0.1 + -0.1 is 0.0): it is unfollowed, and so is an
\* unfollowed float plus a finite one.  An unfollowed float plus an infinity
\* or another unfollowed float may be NaN or not, and has no value here.
NumAdd(a, b) ==
    CASE a.k = "nan" \/ b.k = "nan" -> NaN
      [] a.k = "inf" /\ b.k = "ninf" -> NaN
      [] a.k = "ninf" /\ b.k = "inf" -> NaN
      [] a.k = "inf" /\ b.k \in {"inf", "fin", "other"} -> PosInf
      [] b.k = "inf" /\ a.k \in {"fin", "other"} -> PosInf
      [] a.k = "ninf" /\ b.k \in {"ninf", "fin", "other"} -> NegInf
      [] b.k = "ninf" /\ a.k \in {"fin", "other"} -> NegInf
      [] a.k = "fin" /\ b.k = "fin" ->
            IF a.n + b.n >= GridLimit \/ a.n + b.n <= 0 - GridLimit THEN OffGrid
            ELSE Fin(a.n + b.n)
      [] a.k = "other" /\ b.k = "fin" -> IF b.n = 0 THEN OffGrid ELSE Unfollowed
      [] a.k = "fin" /\ b.k = "other" -> IF a.n = 0 THEN OffGrid ELSE Unfollowed
      [] a.k = "other" /\ b.k = "other" -> Unfollowed
      [] a.k = "unfollowed" /\ b.k \in {"fin", "other"} -> Unfollowed
      [] b.k = "unfollowed" /\ a.k \in {"fin", "other"} -> Unfollowed

\* -a
NumNeg(a) ==
    CASE a.k = "fin"  -> Fin(0 - a.n)
      [] a.k = "inf"  -> NegInf
      [] a.k = "ninf" -> PosInf
      [] OTHER        -> a

\* a - b
NumSub(a, b) == NumAdd(a, NumNeg(b))

\* bool(a): 0.0 is the one falsy float.  An unfollowed float may be 0.0
\* or not, and has no truth value here.
NumTruthy(a) ==
    CASE a.k = "fin" -> a.n # 0
      [] a.k \in {"inf", "ninf", "nan", "other"} -> TRUE

\* f'{x:.2f}': a grid value is rounded to the nearest hundredth, an exact tie
\* (x.xx5) going to the even hundredth; the specials are written inf, -inf, nan
Fmt2(a) ==
    LET mag   == IF a.n < 0 THEN 0 - a.n ELSE a.n
        twice == (mag % 8) * 25               \* the fraction in two-hundredths
        q     == twice \div 2                 \* floor
        cents == IF twice = 2 * q THEN q
                 ELSE IF q % 2 = 0 THEN q ELSE q + 1
    IN  CASE a.k = "fin" ->
                (IF a.n < 0 THEN <<"-">> ELSE <<>>)
                \o NatText(mag \div 8) \o <<".">>
                \o <<Digits[(cents \div 10) + 1], Digits[(cents % 10) + 1]>>
          [] a.k = "inf"  -> <<"i","n","f">>
          [] a.k = "ninf" -> <<"-","i","n","f">>
          [] a.k = "nan"  -> <<"n","a","n">>
          [] OTHER        -> <<"<two decimals of a float the model does not follow>">>

\* the text SQLite gives a REAL that is stored in a TEXT column ("%!.15g")
FloatText(a) ==
    LET mag  == IF a.n < 0 THEN 0 - a.n ELSE a.n
        frac == << <<"0">>, <<"1","2","5">>, <<"2","5">>, <<"3","7","5">>, <<"5">>,
                   <<"6","2","5">>, <<"7","5">>, <<"8","7","5">> >>[(mag % 8) + 1]
    IN  CASE a.k = "fin" ->
                (IF a.n < 0 THEN <<"-">> ELSE <<>>) \o NatText(mag \div 8) \o <<".">> \o frac
          [] a.k = "inf"  -> <<"I","n","f">>
          [] a.k = "ninf" -> <<"-","I","n","f">>
          [] OTHER        -> <<"<text of a float the model does not follow>">>

\* 2^1024 - 2^970 (309 digits): decimals from here on round to infinity, and
\* float() of an integer from here on raises OverflowError
FloatOverflowDigits == <<
    "1","7","9","7","6","9","3","1","3","4","8","6","2","3","1","5","8","0","7","9","3","7","2","8","9",
    "7","1","4","0","5","3","0","3","4","1","5","0","7","9","9","3","4","1","3","2","7","1","0","0","3",
    "7","8","2","6","9","3","6","1","7","3","7","7","8","9","8","0","4","4","4","9","6","8","2","9","2",
    "7","6","4","7","5","0","9","4","6","6","4","9","0","1","7","9","7","7","5","8","7","2","0","7","0",
    "9","6","3","3","0","2","8","6","4","1","6","6","9","2","8","8","7","9","1","0","9","4","6","5","5",
    "5","5","4","7","8","5","1","9","4","0","4","0","2","6","3","0","6","5","7","4","8","8","6","7","1",
    "5","0","5","8","2","0","6","8","1","9","0","8","9","0","2","0","0","0","7","0","8","3","8","3","6",
    "7","6","2","7","3","8","5","4","8","4","5","8","1","7","7","1","1","5","3","1","7","6","4","4","7",
    "5","7","3","0","2","7","0","0","6","9","8","5","5","5","7","1","3","6","6","9","5","9","6","2","2",
    "8","4","2","9","1","4","8","1","9","8","6","0","8","3","4","9","3","6","4","7","5","2","9","2","7",
    "1","9","0","7","4","1","6","8","4","4","4","3","6","5","5","1","0","7","0","4","3","4","2","7","1",
    "1","5","5","9","6","9","9","5","0","8","0","9","3","0","4","2","8","8","0","1","7","7","9","0","4",
    "1","7","4","4","9","7","7","9","2" >>

\* the digits of 2^-1075 = 0.<these digits> * 10^-323: decimals up to here
\* round to zero
FloatUnderflowDigits == <<
    "2","4","7","0","3","2","8","2","2","9","2","0","6","2","3","2","7","2","0","8","8","2","8","4","3",
    "9","6","4","3","4","1","1","0","6","8","6","1","8","2","5","2","9","9","0","1","3","0","7","1","6",
    "2","3","8","2","2","1","2","7","9","2","8","4","1","2","5","0","3","3","7","7","5","3","6","3","5",
    "1","0","4","3","7","5","9","3","2","6","4","9","9","1","8","1","8","0","8","1","7","9","9","6","1",
    "8","9","8","9","8","2","8","2","3","4","7","7","2","2","8","5","8","8","6","5","4","6","3","3","2",
    "8","3","5","5","1","7","7","9","6","9","8","9","8","1","9","9","3","8","7","3","9","8","0","0","5",
    "3","9","0","9","3","9","0","6","3","1","5","0","3","5","6","5","9","5","1","5","5","7","0","2","2",
    "6","3","9","2","2","9","0","8","5","8","3","9","2","4","4","9","1","0","5","1","8","4","4","3","5",
    "9","3","1","8","0","2","8","4","9","9","3","6","5","3","6","1","5","2","5","0","0","3","1","9","3",
    "7","0","4","5","7","6","7","8","2","4","9","2","1","9","3","6","5","6","2","3","6","6","9","8","6",
    "3","6","5","8","4","8","0","7","5","7","0","0","1","5","8","5","7","6","9","2","6","9","9","0","3",
    "7","0","6","3","1","1","9","2","8","2","7","9","5","5","8","5","5","1","3","3","2","9","2","7","8",
    "3","4","3","3","8","4","0","9","3","5","1","9","7","8","0","1","5","5","3","1","2","4","6","5","9",
    "7","2","6","3","5","7","9","5","7","4","6","2","2","7","6","6","4","6","5","2","7","2","8","2","7",
    "2","2","0","0","5","6","3","7","4","0","0","6","4","8","5","4","9","9","9","7","7","0","9","6","5",
    "9","9","4","7","0","4","5","4","0","2","0","8","2","8","1","6","6","2","2","6","2","3","7","8","5",
    "7","3","9","3","4","5","0","7","3","6","3","3","9","0","0","7","9","6","7","7","6","1","9","3","0",
    "5","7","7","5","0","6","7","4","0","1","7","6","3","2","4","6","7","3","6","0","0","9","6","8","9",
    "5","1","3","4","0","5","3","5","5","3","7","4","5","8","5","1","6","6","6","1","1","3","4","2","2",
    "3","7","6","6","6","7","8","6","0","4","1","6","2","1","5","9","6","8","0","4","6","1","9","1","4",
    "4","6","7","2","9","1","8","4","0","3","0","0","5","3","0","0","5","7","5","3","0","8","4","9","0",
    "4","8","7","6","5","3","9","1","7","1","1","3","8","6","5","9","1","6","4","6","2","3","9","5","2",
    "4","9","1","2","6","2","3","6","5","3","8","8","1","8","7","9","6","3","6","2","3","9","3","7","3",
    "2","8","0","4","2","3","8","9","1","0","1","8","6","7","2","3","4","8","4","9","7","6","6","8","2",
    "3","5","0","8","9","8","6","3","3","8","8","5","8","7","9","2","5","6","2","8","3","0","2","7","5",
    "5","9","9","5","6","5","7","5","2","4","4","5","5","5","0","7","2","5","5","1","8","9","3","1","3",
    "6","9","0","8","3","6","2","5","4","7","7","9","1","8","6","9","4","8","6","6","7","9","9","4","9",
    "6","8","3","2","4","0","4","9","7","0","5","8","2","1","0","2","8","5","1","3","1","8","5","4","5",
    "1","3","9","6","2","1","3","8","3","7","7","2","2","8","2","6","1","4","5","4","3","7","6","9","3",
    "4","1","2","5","3","2","0","9","8","5","9","1","3","2","7","6","6","7","2","3","6","3","2","8","1",
    "2","5" >>

IsSpace(c) == c \in {" ", "\t", "\n", "\r", "\f"}

\* str.strip() of the whitespace float() ignores
StripSpace(s) ==
    LET ink == {i \in 1..Len(s) : ~IsSpace(s[i])}
    IN  IF ink = {} THEN <<>>
        ELSE SubSeq(s, CHOOSE i \in ink : \A j \in 1..(i - 1) : IsSpace(s[j]),
                       CHOOSE i \in ink : \A j \in (i + 1)..Len(s) : IsSpace(s[j]))

\* the characters of s that are not underscores
DropUnderscores(s) ==
    LET keep == {i \in 1..Len(s) : s[i] # "_"}
        Nth(k) == CHOOSE i \in keep : Cardinality({j \in keep : j <= i}) = k
    IN  IF Cardinality(keep) = Len(s) THEN s
        ELSE [k \in 1..Cardinality(keep) |-> s[Nth(k)]]

RECURSIVE Pow2(_)
Pow2(k) == IF k = 0 THEN 1 ELSE 2 * Pow2(k - 1)

\* 0.a / 2^j for the digit text a of a fraction, j <= 8: long division, j
\* digits longer. The remainder carried into digit i is the number read so
\* far modulo 2^j, which its last j digits decide (2^j divides 10^j).
DivPow2(a, j) ==
    LET At(i)  == IF i > Len(a) THEN "0" ELSE a[i]
        Seen(i) == IF i - 1 < j THEN i - 1 ELSE j
        Rem(i)  == DigitsValue([m \in 1..Seen(i) |-> At(i - 1 - Seen(i) + m)]) % Pow2(j)
    IN  SubSeq([i \in 1..(Len(a) + j) |->
                   Digits[((10 * Rem(i) + Ord(At(i)) - 48) \div Pow2(j)) + 1]],
               1, Len(a) + j)

\* the digit text of the fraction 2^-k, k >= 1
RECURSIVE HalfPower(_)
HalfPower(k) ==
    IF k = 1 THEN <<"5">>
    ELSE IF k <= 9 THEN DivPow2(<<"5">>, k - 1)
    ELSE DivPow2(HalfPower(k - 8), 8)

\* 0.a - 0.b for the digit texts of two fractions, 0.a >= 0.b: digit by digit,
\* a borrow reaching digit i when what follows it is smaller in a than in b
FractionMinus(a, b) ==
    LET n         == IF Len(a) > Len(b) THEN Len(a) ELSE Len(b)
        A(i)      == IF i > Len(a) THEN 0 ELSE Ord(a[i]) - 48
        B(i)      == IF i > Len(b) THEN 0 ELSE Ord(b[i]) - 48
        Borrow(i) == \E j \in (i + 1)..n :
                        A(j) < B(j) /\ \A m \in (i + 1)..(j - 1) : A(m) = B(m)
    IN  [i \in 1..n |->
            Digits[((10 + A(i) - B(i) - (IF Borrow(i) THEN 1 ELSE 0)) % 10) + 1]]

\* floor(log2(n)), n >= 1
RECURSIVE Log2(_)
Log2(n) == IF n < 2 THEN 0 ELSE 1 + Log2(n \div 2)

\* The doubles around the grid value n/8 (n >= 1) are 2^(Log2(n) - 55) apart
\* (53 significant bits), and half as far apart just below a power of two.
\* A decimal up to half that gap away rounds to n/8: also one exactly half
\* the gap away, because the significand of a grid value is even.
\* The digit text of that half gap, away from zero and towards zero:
HalfGapAbove(n) == HalfPower(56 - Log2(n))
HalfGapBelow(n) == HalfPower(IF n = Pow2(Log2(n)) THEN 57 - Log2(n) ELSE 56 - Log2(n))

\* the double nearest to sign * 0.digits * 10^order, digits starting and
\* ending with a non-zero digit, or empty for zero.  Between the thresholds
\* the decimal is down/8 + 0.above with 0 <= 0.above < 0.125; it is a grid
\* value when it rounds to down/8 or to (down + 1)/8.
RoundDecimal(neg, digits, order) ==
    LET int   == [i \in 1..order |-> IF i <= Len(digits) THEN digits[i] ELSE "0"]
        frac  == SubSeq(digits, order + 1, Len(digits))
        f3    == DigitsValue([i \in 1..3 |-> IF i <= Len(frac) THEN frac[i] ELSE "0"])
        down  == 8 * DigitsValue(int) + f3 \div 125
        rem   == f3 % 125
        above == <<Digits[(rem \div 100) + 1], Digits[((rem \div 10) % 10) + 1],
                   Digits[(rem % 10) + 1]>> \o SubSeq(frac, 4, Len(frac))
        Signed(n) == Fin(IF neg THEN 0 - n ELSE n)
    IN  IF digits = <<>> THEN Fin(0)
        ELSE IF DecimalGE(digits, order, FloatOverflowDigits, 309)
        THEN (IF neg THEN NegInf ELSE PosInf)
        ELSE IF DecimalGE(FloatUnderflowDigits, 0 - 323, digits, order) THEN Fin(0)
        ELSE IF order > GridDigits \/ order < 0 THEN OffGrid
        ELSE IF StripTrailingZeros(above) = <<>> THEN Signed(down)
        ELSE IF down > 0 /\ FractionGE(HalfGapAbove(down), above) THEN Signed(down)
        ELSE IF /\ down + 1 < GridLimit
                /\ FractionGE(above, FractionMinus(<<"1","2","5">>, HalfGapBelow(down + 1)))
        THEN Signed(down + 1)
        ELSE OffGrid

\* single underscores may sit between two digits of a numeral
UnderscoresOk(u) ==
    \A i \in 1..Len(u) :
        u[i] = "_" => i > 1 /\ i < Len(u) /\ IsDigit(u[i - 1]) /\ IsDigit(u[i + 1])

\* where the exponent of a numeral starts: its first e or E, Len(w) + 1 without one
ExponentAt(w) ==
    LET es == {i \in 1..Len(w) : w[i] \in {"e", "E"}}
    IN  IF es = {} THEN Len(w) + 1 ELSE CHOOSE i \in es : \A j \in es : i <= j

\* where the fraction of a mantissa starts: its first point, Len(mant) + 1 without one
PointAt(mant) ==
    LET dots == {i \in 1..Len(mant) : mant[i] = "."}
    IN  IF dots = {} THEN Len(mant) + 1 ELSE CHOOSE i \in dots : \A j \in dots : i <= j

\* the double of 0.digits * 10^order * 10^(+-eshort), digits without leading
\* and trailing zeros, eshort the exponent's digits without leading zeros
FloatOfDigits(neg, digits, order, eneg, eshort) ==
    IF digits = <<>> THEN Fin(0)
    ELSE IF Len(eshort) > 7                  \* an exponent beyond every double
    THEN (IF eneg THEN Fin(0) ELSE IF neg THEN NegInf ELSE PosInf)
    ELSE RoundDecimal(neg, digits,
                      order + (IF eneg THEN 0 - DigitsValue(eshort) ELSE DigitsValue(eshort)))

\* the double of int.frac * 10^(+-edig)
FloatOfParts(neg, int, frac, eneg, edig) ==
    LET lead == StripLeadingZeros(int \o frac)
    IN  FloatOfDigits(neg, StripTrailingZeros(lead), Len(lead) - Len(frac), eneg,
                      StripLeadingZeros(edig))

\* digits[.digits][e[sign]digits] with a digit before or after the point,
\* cut into its fields; anything else raises ValueError
FloatOfFields(neg, int, frac, hasExp, eneg, edig) ==
    IF /\ int \o frac # <<>>
       /\ \A i \in 1..Len(int \o frac) : IsDigit((int \o frac)[i])
       /\ hasExp => IsDigits(edig)
    THEN [exc |-> "none", v |-> FloatOfParts(neg, int, frac, eneg, edig)]
    ELSE [exc |-> "ValueError", v |-> Fin(0)]

FloatOfMantissa(neg, mant, hasExp, etext) ==
    LET dpos == PointAt(mant)
    IN  FloatOfFields(neg, SubSeq(mant, 1, dpos - 1), SubSeq(mant, dpos + 1, Len(mant)),
                      hasExp, etext # <<>> /\ Head(etext) = "-",
                      IF etext # <<>> /\ Head(etext) \in {"+", "-"} THEN Tail(etext)
                      ELSE etext)

FloatOfNumeral(neg, w) ==
    LET epos == ExponentAt(w)
    IN  FloatOfMantissa(neg, SubSeq(w, 1, epos - 1), epos <= Len(w),
                        SubSeq(w, epos + 1, Len(w)))

\* float() of a text without surrounding whitespace and sign: inf, infinity
\* or nan in any case, or a numeral
FloatOfUnsigned(neg, u) ==
    IF Lower(u) \in {<<"i","n","f">>, <<"i","n","f","i","n","i","t","y">>}
    THEN [exc |-> "none", v |-> IF neg THEN NegInf ELSE PosInf]
    ELSE IF Lower(u) = <<"n","a","n">> THEN [exc |-> "none", v |-> NaN]
    ELSE IF ~UnderscoresOk(u) THEN [exc |-> "ValueError", v |-> Fin(0)]
    ELSE FloatOfNumeral(neg, DropUnderscores(u))

FloatOfStripped(t) ==
    IF t # <<>> /\ Head(t) \in {"+", "-"} THEN FloatOfUnsigned(Head(t) = "-", Tail(t))
    ELSE FloatOfUnsigned(FALSE, t)

\* float(s) for a string s: the surrounding whitespace is dropped, then a
\* sign is read, then inf, infinity, nan or a numeral
FloatOfText(s) == FloatOfStripped(StripSpace(s))

-----------------------------------------------------------------------------
(***************************************************************************)
(* JSON values of a request body, as json.loads gives them to the handler. *)
(*   t = "null"   : null, or a key that is absent (dict.get gives None)    *)
(*   t = "bool"   : true (n = 1) or false (n = 0)                          *)
(*   t = "int"    : an integer literal, s its decimal digits after an      *)
(*                  optional "-", of any length                            *)
(*   t = "float"  : a literal with a fraction or exponent, or NaN,         *)
(*                  Infinity, -Infinity: the float [k, n]                  *)
(*   t = "str"    : a string, s its text                                   *)
(*   t = "list", "object" : an array or object of n entries               *)
(***************************************************************************)
JNull == [t |-> "null", s |-> <<>>, n |-> 0, k |-> "fin"]
JBool(b) == [t |-> "bool", s |-> <<>>, n |-> IF b THEN 1 ELSE 0, k |-> "fin"]
JInt(digits) == [t |-> "int", s |-> digits, n |-> 0, k |-> "fin"]
JFloat(x) == [t |-> "float", s |-> <<>>, n |-> x.n, k |-> x.k]
JStr(s) == [t |-> "str", s |-> s, n |-> 0, k |-> "fin"]
JList(len) == [t |-> "list", s |-> <<>>, n |-> len, k |-> "fin"]
JObject(len) == [t |-> "object", s |-> <<>>, n |-> len, k |-> "fin"]

\* the float of a JSON float
NumOf(j) == [k |-> j.k, n |-> j.n]

\* sign and magnitude of a JSON integer
IntNegative(j) == j.s # <<>> /\ Head(j.s) = "-"
IntDigits(j) == IF IntNegative(j) THEN Tail(j.s) ELSE j.s

\* Python truthiness: None, False, 0, 0.0, "", [] and {} are falsy
Truthy(j) ==
    CASE j.t = "null"  -> FALSE
      [] j.t = "bool"  -> j.n = 1
      [] j.t = "int"   -> StripLeadingZeros(IntDigits(j)) # <<>>
      [] j.t = "float" -> NumTruthy(NumOf(j))
      [] j.t = "str"   -> j.s # <<>>
      [] OTHER         -> j.n # 0

\* float(n) for a Python int: OverflowError from 2^1024 - 2^970 on
FloatOfInt(j) ==
    LET d == StripLeadingZeros(IntDigits(j))
    IN  IF NatTextLE(FloatOverflowDigits, d) THEN [exc |-> "OverflowError", v |-> Fin(0)]
        ELSE IF Len(d) > GridDigits THEN [exc |-> "none", v |-> OffGrid]
        ELSE [exc |-> "none",
              v |-> Fin(IF IntNegative(j) THEN 0 - 8 * DigitsValue(d) ELSE 8 * DigitsValue(d))]

\* float(amount) at line 65: the exception it raises, or its value
Float(j) ==
    CASE j.t = "bool"  -> [exc |-> "none", v |-> Fin(8 * j.n)]
      [] j.t = "int"   -> FloatOfInt(j)
      [] j.t = "float" -> [exc |-> "none", v |-> NumOf(j)]
      [] j.t = "str"   -> FloatOfText(j.s)
      [] OTHER         -> [exc |-> "TypeError", v |-> Fin(0)]

-----------------------------------------------------------------------------
(***************************************************************************)
(* The store: table `transactions` with an AUTOINCREMENT key.             *)
(***************************************************************************)
INCOME  == <<"i","n","c","o","m","e">>
EXPENSE == <<"e","x","p","e","n","s","e">>
MONTH   == <<"m","o","n","t","h">>

\* 2^63 - 1 and 2^63, the bounds of an SQLite INTEGER
MaxInt64Text == <<"9","2","2","3","3","7","2","0","3","6","8","5","4","7","7","5","8","0","7">>
TooBigId     == <<"9","2","2","3","3","7","2","0","3","6","8","5","4","7","7","5","8","0","8">>

\* sqlite3 can bind the integer sign * digits: it lies in -2^63 .. 2^63 - 1
FitsInt64(negative, digits) ==
    NatTextLE(digits, IF negative THEN TooBigId ELSE MaxInt64Text)

\* what binding a Python value to a parameter of a TEXT column does: raise
\* (exc), store NULL (null), or store the text s.  Integers and floats are
\* converted to text by the column's affinity; NaN is bound as NULL.
BindText(j) ==
    LET Text(s) == [exc |-> "none", null |-> FALSE, s |-> s]
        Raise(e) == [exc |-> e, null |-> FALSE, s |-> <<>>]
        Null == [exc |-> "none", null |-> TRUE, s |-> <<>>]
        d == StripLeadingZeros(IntDigits(j))
    IN  CASE j.t = "null"  -> Null
          [] j.t = "bool"  -> Text(NatText(j.n))
          [] j.t = "int"   ->
                IF ~FitsInt64(IntNegative(j), d) THEN Raise("OverflowError")
                ELSE IF d = <<>> THEN Text(<<"0">>)
                ELSE Text((IF IntNegative(j) THEN <<"-">> ELSE <<>>) \o d)
          [] j.t = "float" -> IF j.k = "nan" THEN Null ELSE Text(FloatText(NumOf(j)))
          [] j.t = "str"   -> Text(j.s)
          [] OTHER         -> Raise("ProgrammingError")

\* largest id present in the table (0 when it is empty)
MaxRowid(t) == IF t = {} THEN 0 ELSE CHOOSE m \in {r.id : r \in t} : \A r \in t : r.id <= m

\* INTEGER PRIMARY KEY AUTOINCREMENT: one more than the largest id ever assigned
\* (sqlite_sequence), whether or not that row still exists
NextRowid(t, s) == (IF MaxRowid(t) > s THEN MaxRowid(t) ELSE s) + 1

\* the float SUM(amount) accumulates over the rows of a group: from 0.0 on,
\* one row after the other in the order of the scan, which is that of the ids
RECURSIVE SumFloat(_)
SumFloat(S) ==
    IF S = {} THEN Fin(0)
    ELSE LET r == CHOOSE x \in S : \A o \in S : o.id <= x.id
         IN  NumAdd(SumFloat(S \ {r}), r.amount)

\* SUM(amount) as the cursor returns it: a float, or None for a sum that is
\* NaN (SQLite turns a NaN result into NULL)
SumAmount(S) == IF SumFloat(S).k = "nan" THEN JNull ELSE JFloat(SumFloat(S))

\* ORDER BY date ASC|DESC: r comes before o.  Rows of equal date leave the
\* sorter in scan (rowid) order under either direction.
RowBefore(r, o, desc) ==
    IF r.date = o.date THEN r.id < o.id
    ELSE IF desc THEN TextLess(o.date, r.date) ELSE TextLess(r.date, o.date)

RECURSIVE OrderByDate(_, _)
OrderByDate(S, desc) ==
    IF S = {} THEN <<>>
    ELSE LET r == CHOOSE x \in S : \A o \in S \ {x} : RowBefore(x, o, desc)
         IN  <<r>> \o OrderByDate(S \ {r}, desc)

\* a set of texts in ascending BINARY order: the order in which GROUP BY
\* (and ORDER BY on the group key) yields its groups
RECURSIVE SortTexts(_)
SortTexts(K) ==
    IF K = {} THEN <<>>
    ELSE LET k == CHOOSE x \in K : \A o \in K \ {x} : TextLess(x, o)
         IN  <<k>> \o SortTexts(K \ {k})

\* the LIKE of the month filter can run over the rows S it is evaluated on:
\* SQLite checks the length of the pattern f'{month}%' when it evaluates LIKE
\* on a row, so a pattern that is too long fails only when there is one
LikeRuns(month, S) == S = {} \/ Len(month) + 1 <= MaxLikePattern

\* the rows on which WHERE type = "expense" AND date LIKE ? evaluates LIKE:
\* those that pass the comparison of the type
ExpenseRows(t) == {r \in t : r.type = EXPENSE}

\* WHERE date LIKE ? with the parameter f'{month}%'
WhereMonth(t, month) == {r \in t : Like(r.date, month \o <<"%">>)}

\* SELECT type, SUM(amount) FROM <S> GROUP BY type: rows <<type, sum>>
TotalsQuery(S) ==
    LET keys == SortTexts({r.type : r \in S})
    IN  [i \in 1..Len(keys) |-> <<keys[i], SumAmount({r \in S : r.type = keys[i]})>>]

\* d[k] = v on a Python dict held as a function
DictSet(d, k, v) == [x \in (DOMAIN d) \cup {k} |-> IF x = k THEN v ELSE d[x]]

\* dict.get(k, default)
DictGet(d, k, default) == IF k \in DOMAIN d THEN d[k] ELSE default

\* the loop `for row in rows: totals[row[0]] = row[1]`
RECURSIVE FoldTotals(_, _)
FoldTotals(totals, rows) ==
    IF rows = <<>> THEN totals
    ELSE FoldTotals(DictSet(totals, Head(rows)[1], Head(rows)[2]), Tail(rows))

-----------------------------------------------------------------------------
(***************************************************************************)
(* get_statistics: the four parts of its answer, as JSON values.          *)
(***************************************************************************)
\* totals (lines 99-103): the integer 0 unless the month has rows of the type
StatTotals(t, month) ==
    FoldTotals([k \in {INCOME, EXPENSE} |-> JInt(<<"0">>)], TotalsQuery(WhereMonth(t, month)))

\* categories (lines 105-108): expenses of the month summed per category
StatCategories(t, month) ==
    LET S    == {r \in WhereMonth(t, month) : r.type = EXPENSE}
        keys == SortTexts({r.category : r \in S})
    IN  [i \in 1..Len(keys) |->
            [name |-> keys[i], value |-> SumAmount({r \in S : r.category = keys[i]})]]

\* daily (lines 110-113): expenses of the month summed per date, by date
StatDaily(t, month) ==
    LET S    == {r \in WhereMonth(t, month) : r.type = EXPENSE}
        keys == SortTexts({r.date : r \in S})
    IN  [i \in 1..Len(keys) |->
            [date |-> keys[i], amount |-> SumAmount({r \in S : r.date = keys[i]})]]

RECURSIVE ConcatAll(_)
ConcatAll(ss) == IF ss = <<>> THEN <<>> ELSE Head(ss) \o ConcatAll(Tail(ss))

\* SELECT substr(date, 1, 7) as month, type, SUM(amount) FROM transactions
\* GROUP BY month, type ORDER BY month (lines 115-116): rows <<month, type, sum>>
MonthlyQuery(t) ==
    LET months == SortTexts({Substr1(r.date, 7) : r \in t})
        Of(m)  == {r \in t : Substr1(r.date, 7) = m}
        Rows(m) ==
            LET types == SortTexts({r.type : r \in Of(m)})
            IN  [i \in 1..Len(types) |->
                    <<m, types[i], SumAmount({r \in Of(m) : r.type = types[i]})>>]
    IN  ConcatAll([i \in 1..Len(months) |-> Rows(months[i])])

\* the loop of lines 117-121 over an insertion-ordered dict: keys in insertion
\* order, map from key to entry
RECURSIVE FoldMonthly(_, _)
FoldMonthly(monthly, rows) ==
    IF rows = <<>> THEN monthly
    ELSE LET row == Head(rows)
             m   == row[1]
             cur == IF m \in DOMAIN monthly.map THEN monthly
                    ELSE [keys |-> Append(monthly.keys, m),
                          map  |-> DictSet(monthly.map, m,
                                     [k \in {MONTH, INCOME, EXPENSE} |->
                                         IF k = MONTH THEN JStr(m) ELSE JInt(<<"0">>)])]
         IN  FoldMonthly([keys |-> cur.keys,
                          map  |-> DictSet(cur.map, m, DictSet(cur.map[m], row[2], row[3]))],
                         Tail(rows))

\* monthly (lines 115-121, 128): list(monthly.values()).  The query of line 115
\* has no parameter: the handler's month argument is not used here.
StatMonthly(t, month) ==
    LET d == FoldMonthly([keys |-> <<>>, map |-> [x \in {} |-> 0]], MonthlyQuery(t))
    IN  [i \in 1..Len(d.keys) |-> d.map[d.keys[i]]]

-----------------------------------------------------------------------------
(***************************************************************************)
(* download_csv: query parameters, totals and the two layouts.  A CSV     *)
(* document is the sequence of rows handed to csv.writer, a row a          *)
(* sequence of cells, a cell a text.                                       *)
(***************************************************************************)
\* request.args.get(key, default)
ArgOr(j, default) == IF j.t = "null" THEN default ELSE j.s

\* line 136
IsSingle(q) ==
    Lower(ArgOr(q.single, <<"0">>)) \in {<<"1">>, <<"t","r","u","e">>, <<"y","e","s">>}

\* lines 142-143: TRUE for DESC
IsDesc(q) == Lower(ArgOr(q.order, <<"a","s","c">>)) = <<"d","e","s","c">>

\* lines 145-159: the selected rows, in order
CsvTransactions(t, q) ==
    OrderByDate(IF Truthy(q.month) THEN WhereMonth(t, q.month.s) ELSE t, IsDesc(q))

\* `row[1] or 0.0` (line 167): a sum that is None or zero becomes 0.0.  An
\* unfollowed sum stays unfollowed: 0.0 if it is zero, itself if it is not.
SumOrZero(v) ==
    IF v.t = "float" /\ v.k = "unfollowed" THEN Unfollowed
    ELSE IF Truthy(v) THEN NumOf(v) ELSE Fin(0)

\* lines 161-172: the totals dict, its values floats
CsvTotals(t, q) ==
    LET rows == TotalsQuery(IF Truthy(q.month) THEN WhereMonth(t, q.month.s) ELSE t)
    IN  FoldTotals([k \in {INCOME, EXPENSE} |-> Fin(0)],
                   [i \in 1..Len(rows) |-> <<rows[i][1], SumOrZero(rows[i][2])>>])

\* line 180
CsvBalance(totals) ==
    NumSub(DictGet(totals, INCOME, Fin(0)), DictGet(totals, EXPENSE, Fin(0)))

\* lines 150, 156
CsvFilename(q) ==
    IF Truthy(q.month) THEN <<"transactions_">> \o q.month.s \o <<".csv">>
    ELSE <<"transactions_all.csv">>

\* lines 182-197
SingleLayout(txs, totals) ==
    LET inc  == Fmt2(DictGet(totals, INCOME, Fin(0)))
        exp  == Fmt2(DictGet(totals, EXPENSE, Fin(0)))
        bal  == Fmt2(CsvBalance(totals))
        Line(tx) == <<"ID:">> \o NatText(tx.id) \o <<" | ">> \o tx.description
                    \o <<" | ">> \o Capitalize(tx.type) \o <<" ">> \o Fmt2(tx.amount)
                    \o <<" | Category: ">> \o tx.category \o <<" | Date: ">> \o tx.date
    IN  << <<<<"Data">>>>,
           << <<"Total Income: ">> \o inc \o <<" | Total Expense: ">> \o exp
              \o <<" | Balance: ">> \o bal >>,
           << <<>> >> >>
        \o (IF txs # <<>> THEN [i \in 1..Len(txs) |-> <<Line(txs[i])>>]
            ELSE << <<<<"No transactions">>>> >>)

\* lines 198-225
MultiLayout(txs, totals) ==
    LET inc  == Fmt2(DictGet(totals, INCOME, Fin(0)))
        exp  == Fmt2(DictGet(totals, EXPENSE, Fin(0)))
        bal  == Fmt2(CsvBalance(totals))
        e    == <<>>
    IN  << << <<"ID">>, <<"Description">>, <<"Amount">>, <<"Type">>, <<"Category">>,
              <<"Date">>, <<"Total Income">>, <<"Total Expense">>, <<"Balance">> >>,
           <<e, e, e, e, e, e, inc, exp, bal>> >>
        \o (IF txs # <<>>
            THEN [i \in 1..Len(txs) |->
                    <<NatText(txs[i].id), txs[i].description, Fmt2(txs[i].amount),
                      txs[i].type, txs[i].category, txs[i].date, e, e, e>>]
            ELSE << <<e, <<"No transactions">>, e, e, e, e, inc, exp, bal>> >>)

\* lines 176-233: the document and its file name
CsvDocument(txs, totals, q) ==
    [rows     |-> IF IsSingle(q) THEN SingleLayout(txs, totals) ELSE MultiLayout(txs, totals),
     filename |-> CsvFilename(q)]

-----------------------------------------------------------------------------
(***************************************************************************)
(* Inputs the handlers are driven with.                                    *)
(***************************************************************************)
Date0301 == <<"2","0","2","4","-","0","3","-","0","1">>
Date0305 == <<"2","0","2","4","-","0","3","-","0","5">>
Date0401 == <<"2","0","2","4","-","0","4","-","0","1">>

Coffee == <<"C","o","f","f","e","e">>
Salary == <<"S","a","l","a","r","y">>
Tea    == <<"T","e","a">>
Refund == <<"R","e","f","u","n","d">>
Bonus  == <<"B","o","n","u","s">>
Food   == <<"F","o","o","d">>
Home   == <<"H","o","m","e">>

\* a request body: what get_json(force=True, silent=True) returns (None for
\* a missing or unparseable body) and, for an object, what .get gives for
\* the five keys
NoKeys == [description |-> JNull, amount |-> JNull, type |-> JNull,
           category |-> JNull, date |-> JNull]
Obj(d, a, ty, c, dt) ==
    [json |-> JObject(Cardinality({x \in {d, a, ty, c, dt} : x # JNull})),
     data |-> [description |-> d, amount |-> a, type |-> ty, category |-> c, date |-> dt]]
BodyMissing == [json |-> JNull,      data |-> NoKeys]
BodyEmpty   == [json |-> JObject(0), data |-> NoKeys]    \* {}
BodyArray   == [json |-> JList(1),   data |-> NoKeys]    \* [1]

\* the integer literal 1 followed by 400 zeros
HugeInt == <<"1">> \o [i \in 1..400 |-> "0"]

\* requests that are stored
GoodBodies ==
    { Obj(JStr(Tea),    JFloat(Fin(1)),     JStr(EXPENSE), JStr(Food), JStr(Date0305)),  \* 0.125
      Obj(JStr(Salary), JInt(<<"3","0","0","0">>), JStr(INCOME), JNull, JStr(Date0301)),
      Obj(JStr(Refund), JFloat(Fin(0 - 3)), JStr(EXPENSE), JStr(Home), JStr(Date0401)),  \* -0.375
      Obj(JStr(Bonus),  JStr(<<" ","+","4",".","5","e","0">>), JStr(MONTH), JStr(<<>>),
          JStr(Date0401)),
      Obj(JStr(Bonus),  JStr(<<"i","n","f">>), JStr(INCOME), JNull, JStr(Date0301)),
      Obj(JStr(Refund), JFloat(NegInf),     JStr(INCOME),  JNull,      JStr(Date0301)),
      Obj(JInt(<<"7">>), JBool(TRUE), JStr(EXPENSE), JFloat(Fin(12)), JInt(<<"2","0","2","4">>)) }

\* requests that one of the checks, or the store, turns down
BadBodies ==
    { BodyMissing, BodyEmpty, BodyArray,
      Obj(JNull,        JFloat(Fin(36)), JStr(EXPENSE), JStr(Food), JStr(Date0305)),
      Obj(JStr(<<>>),   JFloat(Fin(36)), JStr(EXPENSE), JStr(Food), JStr(Date0305)),
      Obj(JList(0),     JFloat(Fin(36)), JStr(EXPENSE), JStr(Food), JStr(Date0305)),
      Obj(JList(1),     JFloat(Fin(36)), JStr(EXPENSE), JStr(Food), JStr(Date0305)),
      Obj(JStr(Coffee), JNull,           JStr(EXPENSE), JStr(Food), JStr(Date0305)),
      Obj(JStr(Coffee), JFloat(Fin(36)), JNull,         JStr(Food), JStr(Date0305)),
      Obj(JStr(Coffee), JFloat(Fin(36)), JInt(TooBigId), JStr(Food), JStr(Date0305)),
      Obj(JStr(Coffee), JFloat(Fin(36)), JStr(EXPENSE), JFloat(NaN), JStr(Date0305)),
      Obj(JStr(Coffee), JFloat(Fin(36)), JStr(EXPENSE), JStr(Food), JNull),
      Obj(JStr(Coffee), JStr(<<"a","b","c">>), JStr(EXPENSE), JStr(Food), JStr(Date0305)),
      Obj(JStr(Coffee), JStr(<<"1","_","_","0">>), JStr(EXPENSE), JStr(Food), JStr(Date0305)),
      Obj(JStr(Coffee), JList(1),        JStr(EXPENSE), JStr(Food), JStr(Date0305)),
      Obj(JStr(Coffee), JStr(<<"N","a","N">>), JStr(EXPENSE), JStr(Food), JStr(Date0305)),
      Obj(JStr(Coffee), JInt(HugeInt),   JStr(EXPENSE), JStr(Food), JStr(Date0305)) }

Bodies == GoodBodies \cup BadBodies

\* ids a DELETE is sent with: the <int:id> segment of the URL, digits as text
UrlIds == {NatText(n) : n \in 1..MaxSeq} \cup {<<"0","1">>, TooBigId}

\* a month one character longer than a LIKE pattern may be
LongMonth == [i \in 1..MaxLikePattern |-> "2"]

\* month arguments: a month, a year, a month with the SQL wildcard _ in place
\* of the dash, the wildcard % alone, a year without transactions, a long one
Months ==
    { <<"2","0","2","4","-","0","3">>, <<"2","0","2","4">>,
      <<"2","0","2","4","_","0","3">>, <<"%">>, <<"2","0","2","5">>, LongMonth }

\* query strings of /download/csv: each parameter absent (None) or given
CsvQueries ==
    [month  : {JNull, JStr(<<>>)} \cup
              {JStr(m) : m \in Months \ {<<"2","0","2","4">>, <<"%">>}},
     order  : {JNull, JStr(<<"D","e","s","c">>)},
     single : {JNull, JStr(<<"Y","E","S">>)}]

-----------------------------------------------------------------------------
(***************************************************************************)
(* The handlers.  Each outcome names the HTTP status, the body, what       *)
(* became of the handler's connection, and the store it leaves.  Status    *)
(* 500 is Flask's answer to an exception no handler code catches.          *)
(***************************************************************************)
Failure(msg) == [success |-> FALSE, error |-> msg]
Uncaught(exc) == [exception |-> exc]
NoResponse == [op |-> "none", req |-> <<>>, status |-> 0, body |-> <<>>]
Idle == [op |-> "idle", pc |-> 0, month |-> <<>>, query |-> <<>>, totals |-> <<>>,
         categories |-> <<>>, daily |-> <<>>, txs |-> <<>>, overlap |-> 0]

\* a request served in one step may run when no statistics or export request
\* is in flight, or between two queries of the one that is
MayServe == job.op = "idle" \/ job.overlap < MaxOverlap
Served == IF job.op = "idle" THEN job ELSE [job EXCEPT !.overlap = @ + 1]

\* the five parameters of the INSERT (line 74), in order, as sqlite3 binds
\* them: the amount is a float by now, and NaN is bound as NULL
InsertParameters(d, amount) ==
    << [col |-> "description", b |-> BindText(d.description)],
       [col |-> "amount",
        b   |-> [exc |-> "none", null |-> amount.k = "nan", s |-> <<>>]],
       [col |-> "type", b |-> BindText(d.type)],
       [col |-> "category",
        b   |-> IF Truthy(d.category) THEN BindText(d.category)
                ELSE [exc |-> "none", null |-> FALSE, s |-> <<>>]],
       [col |-> "date", b |-> BindText(d.date)] >>

\* add_transaction (lines 47-83)
AddOutcome(t, s, b) ==
    LET d == b.data
        Keep(status, body, c) ==
            [status |-> status, body |-> body, conn |-> c, table |-> t, seq |-> s]
    IN  IF ~Truthy(b.json)                                               \* line 50
        THEN Keep(400, Failure(<<"Invalid JSON payload">>), "none")
        ELSE IF b.json.t # "object"                                      \* line 54: no .get
        THEN Keep(500, Uncaught("AttributeError"), "none")
        ELSE IF \/ ~Truthy(d.description) \/ d.amount.t = "null"         \* line 60
                \/ ~Truthy(d.type) \/ ~Truthy(d.date)
        THEN Keep(400, Failure(<<"Missing required fields">>), "none")
        ELSE LET f == Float(d.amount)                                    \* line 65
             IN  IF f.exc \in {"ValueError", "TypeError"}                \* line 66
                 THEN Keep(400, Failure(<<"Invalid amount">>), "none")
                 ELSE IF f.exc # "none"
                 THEN Keep(500, Uncaught(f.exc), "none")
                 ELSE LET p      == InsertParameters(d, f.v)             \* lines 72-74
                          raised == {i \in 1..Len(p) : p[i].b.exc # "none"}
                          nulls  == {i \in 1..Len(p) : p[i].b.null}
                          First(I) == CHOOSE i \in I : \A j \in I : i <= j
                          id     == NextRowid(t, s)
                      IN  IF raised # {}         \* not an IntegrityError: lines 80-81 only
                          THEN Keep(500, Uncaught(p[First(raised)].b.exc), "closed")
                          ELSE IF nulls # {}                             \* lines 77-81
                          THEN Keep(400,
                                    Failure(<<"NOT NULL constraint failed: transactions.",
                                              p[First(nulls)].col>>),
                                    "closed")
                          ELSE [status |-> 200,                          \* lines 75-76, 83
                                body   |-> [success |-> TRUE, id |-> id],
                                conn   |-> "closed",
                                table  |-> t \cup
                                    {[id          |-> id,
                                      description |-> p[1].b.s,
                                      amount      |-> f.v,
                                      type        |-> p[3].b.s,
                                      category    |-> p[4].b.s,
                                      date        |-> p[5].b.s]},
                                seq    |-> id]

AddTransaction(b) ==
    LET o == AddOutcome(table, seq, b)
    IN  /\ MayServe
        /\ o.seq <= MaxSeq
        /\ table' = o.table
        /\ seq' = o.seq
        /\ resp' = [op |-> "add", req |-> b, status |-> o.status, body |-> o.body]
        /\ conn' = o.conn
        /\ issued' = IF o.status = 200 THEN issued \cup {o.body.id} ELSE issued
        /\ job' = Served

\* get_transactions (lines 29-45)
GetTransactions ==
    /\ MayServe
    /\ resp' = [op |-> "list", req |-> <<>>, status |-> 200,
                body |-> OrderByDate(table, TRUE)]
    /\ conn' = "closed"
    /\ job' = Served
    /\ UNCHANGED <<table, seq, issued>>

\* int(text) of the <int:id> converter, as canonical decimal text
IntText(idText) ==
    IF StripLeadingZeros(idText) = <<>> THEN <<"0">> ELSE StripLeadingZeros(idText)

\* faulty variant, for contrast: the DELETE without its WHERE clause
DeleteOutcomeNoWhere(t, idText) ==
    IF ~FitsInt64(FALSE, idText)
    THEN [status |-> 500, body |-> Uncaught("OverflowError"), conn |-> "open", table |-> t]
    ELSE [status |-> 200, body |-> [success |-> TRUE], conn |-> "closed", table |-> {}]

\* delete_transaction (lines 85-92); binding an id beyond 2^63 - 1 raises
\* OverflowError in c.execute, and lines 90-92 are not reached
DeleteOutcome(t, idText) ==
    IF ~FitsInt64(FALSE, idText)
    THEN [status |-> 500, body |-> Uncaught("OverflowError"), conn |-> "open", table |-> t]
    ELSE [status |-> 200, body |-> [success |-> TRUE], conn |-> "closed",
          table  |-> {r \in t : NatText(r.id) # IntText(idText)}]

DeleteTransaction(idText) ==
    LET o == DeleteOutcome(table, idText)
    IN  /\ MayServe
        /\ table' = o.table
        /\ resp' = [op |-> "delete", req |-> idText, status |-> o.status, body |-> o.body]
        /\ conn' = o.conn
        /\ job' = Served
        /\ UNCHANGED <<seq, issued>>

\* an uncaught sqlite3.OperationalError ('LIKE or GLOB pattern too complex')
\* in c.execute or c.fetchall: the request ends with 500, and the conn.close() of
\* the handler (line 123 or 174) is not reached
LikeFails(op, req) ==
    /\ job' = Idle
    /\ resp' = [op |-> op, req |-> req, status |-> 500, body |-> Uncaught("OperationalError")]
    /\ conn' = "open"

\* get_statistics, lines 96-103: connect and the totals query
GetStatisticsTotals(month) ==
    /\ job.op = "idle"
    /\ IF LikeRuns(month, table)
       THEN /\ job' = [Idle EXCEPT !.op = "statistics", !.pc = 1, !.month = month,
                                   !.totals = StatTotals(table, month)]
            /\ resp' = NoResponse
            /\ conn' = "none"
       ELSE LikeFails("statistics", month)
    /\ UNCHANGED <<table, seq, issued>>

\* lines 105-108
GetStatisticsCategories ==
    /\ job.op = "statistics" /\ job.pc = 1
    /\ IF LikeRuns(job.month, ExpenseRows(table))
       THEN /\ job' = [job EXCEPT !.pc = 2, !.categories = StatCategories(table, job.month)]
            /\ resp' = NoResponse
            /\ conn' = "none"
       ELSE LikeFails("statistics", job.month)
    /\ UNCHANGED <<table, seq, issued>>

\* lines 110-113
GetStatisticsDaily ==
    /\ job.op = "statistics" /\ job.pc = 2
    /\ IF LikeRuns(job.month, ExpenseRows(table))
       THEN /\ job' = [job EXCEPT !.pc = 3, !.daily = StatDaily(table, job.month)]
            /\ resp' = NoResponse
            /\ conn' = "none"
       ELSE LikeFails("statistics", job.month)
    /\ UNCHANGED <<table, seq, issued>>

\* lines 115-129: the trend query, close, and the answer
GetStatisticsMonthly ==
    /\ job.op = "statistics" /\ job.pc = 3
    /\ resp' = [op |-> "statistics", req |-> job.month, status |-> 200,
                body |-> [totals     |-> job.totals,
                          categories |-> job.categories,
                          daily      |-> job.daily,
                          monthly    |-> StatMonthly(table, job.month)]]
    /\ conn' = "closed"
    /\ job' = Idle
    /\ UNCHANGED <<table, seq, issued>>

\* download_csv, lines 135-159: connect and the transactions query
DownloadCsvTransactions(q) ==
    /\ job.op = "idle"
    /\ IF Truthy(q.month) => LikeRuns(q.month.s, table)
       THEN /\ job' = [Idle EXCEPT !.op = "csv", !.pc = 1, !.query = q,
                                   !.txs = CsvTransactions(table, q)]
            /\ resp' = NoResponse
            /\ conn' = "none"
       ELSE LikeFails("csv", q)
    /\ UNCHANGED <<table, seq, issued>>

\* lines 161-233: the totals query, close, and the document
DownloadCsvTotals ==
    /\ job.op = "csv" /\ job.pc = 1
    /\ IF Truthy(job.query.month) => LikeRuns(job.query.month.s, table)
       THEN /\ resp' = [op |-> "csv", req |-> job.query, status |-> 200,
                        body |-> CsvDocument(job.txs, CsvTotals(table, job.query),
                                             job.query)]
            /\ conn' = "closed"
            /\ job' = Idle
       ELSE LikeFails("csv", job.query)
    /\ UNCHANGED <<table, seq, issued>>

-----------------------------------------------------------------------------
\* the database file as init_db() creates it, before the first request
Init ==
    /\ table = {}
    /\ seq = 0
    /\ resp = NoResponse
    /\ conn = "none"
    /\ issued = {}
    /\ job = Idle

Next ==
    \/ GetTransactions
    \/ \E b \in Bodies : AddTransaction(b)
    \/ \E i \in UrlIds : DeleteTransaction(i)
    \/ \E m \in Months : GetStatisticsTotals(m)
    \/ GetStatisticsCategories
    \/ GetStatisticsDaily
    \/ GetStatisticsMonthly
    \/ \E q \in CsvQueries : DownloadCsvTransactions(q)
    \/ DownloadCsvTotals

Spec == Init /\ [][Next]_vars

-----------------------------------------------------------------------------
(***************************************************************************)
(* Vocabulary of the claims.                                               *)
(***************************************************************************)
\* listAll() of the store contract: what GET /api/transactions returns
ListAll(t) == OrderByDate(t, TRUE)

\* a valid insert: a JSON object in which description, type and date are
\* present (line 60 takes a falsy value for a missing one), amount is present
\* and float() turns it into a number
ValidInsert(b) ==
    /\ b.json.t = "object"
    /\ \A f \in {"description", "type", "date"} : Truthy(b.data[f])
    /\ b.data.amount.t # "null"
    /\ Float(b.data.amount).exc = "none" /\ Float(b.data.amount).v.k # "nan"

\* a request the insert must turn down: a body that is missing or does not
\* parse, one that lacks description, amount, type or date, or one whose
\* amount float() does not turn into a number
InvalidInsert(b) ==
    \/ b.json.t # "object"
    \/ \E f \in {"description", "type", "date"} : ~Truthy(b.data[f])
    \/ b.data.amount.t = "null"
    \/ Float(b.data.amount).exc # "none"
    \/ Float(b.data.amount).v.k = "nan"

\* a step that answers a statistics request, or an export, during which no
\* other request was served: resp' is the answer, and the unprimed table is
\* the store that every query of the request read
StatisticsAnswer ==
    job.op = "statistics" /\ job'.op = "idle" /\ resp'.status = 200 /\ job.overlap = 0
CsvAnswer == job.op = "csv" /\ job'.op = "idle" /\ resp'.status = 200 /\ job.overlap = 0

\* a step that ends an export, with a document or with a failure, during
\* which no other request was served
CsvEnds == resp'.op = "csv" /\ job.overlap = 0

\* the number a JSON number is
NumberOf(j) == IF j.t = "int" THEN FloatOfInt(j).v ELSE NumOf(j)

\* income minus expense of the totals of a statistics answer: a number, or
\* null when one of the two is null and there is no difference to take
StatDifference(totals) ==
    IF totals[INCOME].t = "null" \/ totals[EXPENSE].t = "null" THEN JNull
    ELSE JFloat(NumSub(NumberOf(totals[INCOME]), NumberOf(totals[EXPENSE])))

\* the total of a set of transactions in a statistics answer: 0 for none
TotalOf(S) == IF S = {} THEN JInt(<<"0">>) ELSE SumAmount(S)

\* p is a prefix of s, character for character
IsPrefix(p, s) == Len(p) <= Len(s) /\ SubSeq(s, 1, Len(p)) = p

\* what a CSV query asks for: the single-column layout, descending dates
SingleRequested(q) ==
    q.single.t = "str" /\ Lower(q.single.s) \in {<<"1">>, <<"t","r","u","e">>, <<"y","e","s">>}
DescRequested(q) == q.order.t = "str" /\ Lower(q.order.s) = <<"d","e","s","c">>

\* listAll() filtered by the month of a CSV query: the transactions whose
\* date starts with the month, all of them without a month
Matching(t, q) == IF Truthy(q.month) THEN {r \in t : IsPrefix(q.month.s, r.date)} ELSE t

\* the transaction rows of a multi-column document: rows 3..N
TxRows(rows) == SubSeq(rows, 3, Len(rows))

\* the dates of the rows follow the requested direction
DatesOrdered(tx, desc) ==
    \A i, j \in 1..Len(tx) :
        i < j => IF desc THEN ~TextLess(tx[i][6], tx[j][6]) ELSE ~TextLess(tx[j][6], tx[i][6])

\* the summary line of an export without transactions
ZeroSummary ==
    <<"Total Income: ", "0", ".", "0", "0", " | Total Expense: ", "0", ".", "0", "0",
      " | Balance: ", "0", ".", "0", "0">>

-----------------------------------------------------------------------------
(***************************************************************************)
(* C1, as claimed.  Every valid insert (description, amount, type and date *)
(* present, amount numeric) is answered 200 with an id that no earlier     *)
(* insert returned, whether or not that transaction still exists, and that *)
(* is larger than all of them; listAll() afterwards holds exactly one      *)
(* transaction with that id, and it has the description, type and date the *)
(* request gave as text and the amount it gave as a number.                *)
(***************************************************************************)
C1_ValidInsertListedOnceWithFreshId ==
    [][ (resp'.op = "add" /\ ValidInsert(resp'.req)) =>
          /\ resp'.status = 200
          /\ resp'.body.success
          /\ resp'.body.id \notin issued
          /\ \A i \in issued : i < resp'.body.id
          /\ LET L == ListAll(table')
                  d == resp'.req.data
             IN  /\ Cardinality({k \in 1..Len(L) : L[k].id = resp'.body.id}) = 1
                 /\ \A k \in 1..Len(L) :
                       L[k].id = resp'.body.id =>
                          /\ \A f \in {"description", "type", "date"} :
                                d[f].t = "str" => L[k][f] = d[f].s
                          /\ d.amount.t \in {"int", "float"} =>
                                L[k].amount = NumberOf(d.amount) ]_vars

(***************************************************************************)
(* C2.  As claimed: for every id, DELETE answers 200 with success true,    *)
(* listAll() afterwards holds no transaction with that id, and deleting    *)
(* the id again leaves the store as it is.                                 *)
(***************************************************************************)
C2_DeleteAlwaysSucceeds ==
    resp.op = "delete" =>
        /\ resp.status = 200
        /\ resp.body.success
        /\ \A k \in 1..Len(ListAll(table)) :
              NatText(ListAll(table)[k].id) # IntText(resp.req)
        /\ DeleteOutcome(table, resp.req).table = table

(***************************************************************************)
(* C3.  As claimed: for the same month filter and the same store, income   *)
(* minus expense of the statistics totals is the balance of the CSV        *)
(* export.  A statistics answer has that difference, and it is the balance *)
(* an export of that month computes; the Balance cell of an exported       *)
(* summary row is the difference of the statistics totals of its month,    *)
(* to two decimals.                                                        *)
(***************************************************************************)
C3_StatisticsDifferenceIsCsvBalance ==
    [][ /\ StatisticsAnswer =>
              \A q \in CsvQueries :
                  q.month = JStr(resp'.req) =>
                      StatDifference(resp'.body.totals)
                          = JFloat(CsvBalance(CsvTotals(table, q)))
        /\ (CsvAnswer /\ Truthy(resp'.req.month) /\ ~SingleRequested(resp'.req)) =>
              LET d == StatDifference(StatTotals(table, resp'.req.month.s))
              IN  /\ d.t = "float"
                  /\ resp'.body.rows[2][9] = Fmt2(NumOf(d)) ]_vars

(***************************************************************************)
(* C4, as claimed.  Whatever month is asked for, a statistics request is   *)
(* answered with a monthly series that has exactly one entry per distinct  *)
(* 7-character date prefix of all stored transactions, in ascending order  *)
(* of the prefix, each entry labelled with its prefix, and with 0 for the  *)
(* income or the expense a prefix does not have.  The trend query is the   *)
(* last one of the request, so the answer is compared with the store it    *)
(* leaves.                                                                 *)
(***************************************************************************)
C4_MonthlyOnePerPrefixAscending ==
    resp.op = "statistics" =>
        /\ resp.status = 200
        /\ LET P  == {Substr1(r.date, 7) : r \in table}
               n  == Cardinality(P)
               ms == resp.body.monthly
               Of(p, ty) == {r \in table : Substr1(r.date, 7) = p /\ r.type = ty}
           IN  /\ Len(ms) = n
               /\ \E f \in [1..n -> P] :
                     /\ \A i, j \in 1..n : i < j => TextLess(f[i], f[j])
                     /\ \A i \in 1..n :
                           /\ ms[i][MONTH] = JStr(f[i])
                           /\ Of(f[i], INCOME) = {} => ms[i][INCOME] = JInt(<<"0">>)
                           /\ Of(f[i], EXPENSE) = {} => ms[i][EXPENSE] = JInt(<<"0">>)

(***************************************************************************)
(* C5, as claimed.  For any store, month filter and order, a multi-column  *)
(* export is answered with a document whose transaction rows (rows 3..N)   *)
(* are exactly the transactions whose date starts with the month, one row  *)
(* each and no other row, each giving back id, description, amount, type,  *)
(* category and date, in the requested date order.                         *)
(***************************************************************************)
C5_CsvRowsRoundTripExactly ==
    [][ (CsvEnds /\ ~SingleRequested(resp'.req)) =>
          /\ resp'.status = 200
          /\ LET M  == Matching(table, resp'.req)
                 tx == TxRows(resp'.body.rows)
             IN  /\ Len(tx) = Cardinality(M)
                 /\ \A i, j \in 1..Len(tx) : i # j => tx[i][1] # tx[j][1]
                 /\ \A i \in 1..Len(tx) :
                       /\ IsDigits(tx[i][1])
                       /\ \E r \in M :
                             /\ r.id = DigitsValue(tx[i][1])
                             /\ r.description = tx[i][2]
                             /\ FloatOfText(tx[i][3]) = [exc |-> "none", v |-> r.amount]
                             /\ r.type = tx[i][4]
                             /\ r.category = tx[i][5]
                             /\ r.date = tx[i][6]
                 /\ DatesOrdered(tx, DescRequested(resp'.req)) ]_vars

(***************************************************************************)
(* C6, as claimed.  A single-column export whose month no stored date      *)
(* starts with (or of an empty store) is answered with exactly 3 rows:     *)
(* "Data", the summary line with zero totals, and "No transactions".       *)
(***************************************************************************)
C6_EmptySingleExportHasThreeRows ==
    [][ (CsvEnds /\ SingleRequested(resp'.req) /\ Matching(table, resp'.req) = {}) =>
          /\ resp'.status = 200
          /\ resp'.body.rows = << <<<<"Data">>>>, <<ZeroSummary>>, <<<<"No transactions">>>> >>
      ]_vars

(***************************************************************************)
(* C7, as claimed.  An insert whose body is missing or unparseable, that   *)
(* lacks description, amount, type or date, or whose amount is not         *)
(* convertible to a number is answered 400 with success false, and the     *)
(* store is as before: no row added, no id consumed.                       *)
(***************************************************************************)
C7_InvalidInsertAnswered400 ==
    [][ (resp'.op = "add" /\ InvalidInsert(resp'.req)) =>
          /\ resp'.status = 400
          /\ resp'.body.success = FALSE
          /\ table' = table
          /\ seq' = seq ]_vars

(***************************************************************************)
(* C8, as claimed.  The month filter is a literal prefix match: the        *)
(* transactions behind totals, categories and daily of a statistics        *)
(* answer, and behind the rows of a CSV export with a month, are exactly   *)
(* those whose date starts with the month string.                          *)
(***************************************************************************)
C8_MonthFilterIsLiteralPrefix ==
    [][ /\ StatisticsAnswer =>
              LET M == {r \in table : IsPrefix(resp'.req, r.date)}
                  X == {r \in M : r.type = EXPENSE}
                  body == resp'.body
              IN  /\ \A ty \in DOMAIN body.totals :
                        body.totals[ty] = TotalOf({r \in M : r.type = ty})
                  /\ {r.type : r \in M} \subseteq DOMAIN body.totals
                  /\ {<<c.name, c.value>> :
                          c \in {body.categories[i] : i \in 1..Len(body.categories)}}
                        = {<<k, SumAmount({r \in X : r.category = k})>> :
                              k \in {r.category : r \in X}}
                  /\ {<<d.date, d.amount>> :
                          d \in {body.daily[i] : i \in 1..Len(body.daily)}}
                        = {<<k, SumAmount({r \in X : r.date = k})>> : k \in {r.date : r \in X}}
        /\ (CsvAnswer /\ Truthy(resp'.req.month) /\ ~SingleRequested(resp'.req)) =>
              LET tx == TxRows(resp'.body.rows)
              IN  {tx[i][1] : i \in 1..Len(tx)} \ {<<>>}
                    = {NatText(r.id) :
                          r \in {x \in table : IsPrefix(resp'.req.month.s, x.date)}} ]_vars

(***************************************************************************)
(* C9, as claimed.  When a request ends, the handler has released the      *)
(* connection it opened, on every exit path.                               *)
(***************************************************************************)
C9_ConnectionReleased ==
    resp.op \in {"list", "add", "delete", "statistics", "csv"} => conn # "open"

(***************************************************************************)
(* C10.  A stored transaction is immutable.  In every step a transaction   *)
(* of the store stays, with all its fields, unless the step is a delete    *)
(* sent with exactly its id; no step changes a field of a stored id; and   *)
(* list, statistics and CSV export, in each of their steps, leave the      *)
(* store and the id counter unchanged.                                     *)
(***************************************************************************)
C10_StoredTransactionsImmutable ==
    [][ /\ \A r \in table :
              \/ r \in table'
              \/ resp'.op = "delete" /\ IntText(resp'.req) = NatText(r.id)
        /\ \A r \in table : \A n \in table' : n.id = r.id => n = r
        /\ resp'.op \in {"list", "statistics", "csv"} => (table' = table /\ seq' = seq)
        /\ job'.pc # job.pc => (table' = table /\ seq' = seq)
      ]_vars

\* a delete of one id answered while the transaction with the other id is stored
C10_Witness ==
    /\ resp.op = "delete" /\ resp.status = 200
    /\ IntText(resp.req) = <<"1">>
    /\ {r.id : r \in table} = {2}

=============================================================================
